---- MODULE Spec2Model ----
(***************************************************************************)
(* Model of mis2.py: the web handler index, the spreadsheet pass            *)
(* process_excel_file and the pairing scan calculate_time_differences.      *)
(*                                                                         *)
(* TLA+ strings are ASCII, so the Chinese literals of the source are        *)
(* written with ASCII stand-ins:                                            *)
(*   "发出/接收" -> "Sent/Received"     "会话时间"     -> "SessionTime"      *)
(*   "接收"      -> "Received"          "发出"         -> "Sent"             *)
(*   "时间差(分钟)" -> "TimeDiff(min)"                                       *)
(* Cell values are tagged records, as openpyxl cells are typed:             *)
(*   [t |-> "none"], [t |-> "str", s |-> ...], [t |-> "num", n |-> ...],     *)
(*   [t |-> "nan"].                                                         *)
(* Column widths, fonts, fills and alignment (lines 141, 144, 150-161,      *)
(* 173, 184-192) change no value and are left out.                          *)
(***************************************************************************)
EXTENDS Integers, Sequences, FiniteSets, TLC

VARIABLES request, caller, pc, sheet, summary_sheet, header_row, headers,
          status_col_idx, time_col_idx, time_diff_col, df, datetime, i,
          results, response

vars == <<request, caller, pc, sheet, summary_sheet, header_row, headers,
          status_col_idx, time_col_idx, time_diff_col, df, datetime, i,
          results, response>>

\* Largest number of rows below the header (and of rows of a DataFrame).
MaxRows == 4

---------------------------------------------------------------------------
\* Values

NoneCell == [t |-> "none"]
NaN == [t |-> "nan"]
Str(s) == [t |-> "str", s |-> s]
Num(n) == [t |-> "num", n |-> n]

\* Python's None for an index or a row number that was never set.
None == -1

STATUS_COL == Str("Sent/Received")
TIME_COL == Str("SessionTime")
DIFF_COL == Str("TimeDiff(min)")
RECEIVE == Str("Received")
SEND == Str("Sent")

summary_headers ==
    <<Str("No"), Str("ReceiveRow"), Str("ReceiveTime"),
      Str("SendRow"), Str("SendTime"), DIFF_COL>>

NaT == [valid |-> FALSE, secs |-> 0]
Timestamp(secs) == [valid |-> TRUE, secs |-> secs]

---------------------------------------------------------------------------
\* pd.to_datetime(..., format="%Y/%m/%d %H:%M", errors='coerce')

\* The fields the format's pattern picks out of a text, <<>> when the text
\* does not have the shape digits/digits/digits digits:digits.
FormatFields(s) ==
    CASE s = "2024/02/29 23:58" -> <<2024, 2, 29, 23, 58>>
      [] s = "2024/03/01 00:03" -> <<2024, 3, 1, 0, 3>>
      [] s = "2023/02/29 10:00" -> <<2023, 2, 29, 10, 0>>
      [] OTHER -> <<>>

IsLeap(y) == (y % 4 = 0 /\ y % 100 # 0) \/ y % 400 = 0

DaysInMonth(y, m) ==
    IF m = 2 THEN (IF IsLeap(y) THEN 29 ELSE 28)
    ELSE IF m \in {4, 6, 9, 11} THEN 30 ELSE 31

RECURSIVE DaysBeforeMonth(_, _)
DaysBeforeMonth(y, m) ==
    IF m <= 1 THEN 0 ELSE DaysBeforeMonth(y, m - 1) + DaysInMonth(y, m - 1)

\* Days from 1970/01/01 to the first day of year y >= 1970.
RECURSIVE DaysBeforeYear(_)
DaysBeforeYear(y) ==
    IF y <= 1970 THEN 0
    ELSE DaysBeforeYear(y - 1) + (IF IsLeap(y - 1) THEN 366 ELSE 365)

strptime(s) ==
    LET f == FormatFields(s) IN
    IF f = <<>> THEN NaT
    ELSE IF f[2] \notin 1..12 \/ f[4] \notin 0..23 \/ f[5] \notin 0..59 THEN NaT
    ELSE IF f[3] \notin 1..DaysInMonth(f[1], f[2]) THEN NaT
    ELSE Timestamp((((DaysBeforeYear(f[1]) + DaysBeforeMonth(f[1], f[2])
                      + (f[3] - 1)) * 24 + f[4]) * 60 + f[5]) * 60)

to_datetime(cell) == IF cell.t = "str" THEN strptime(cell.s) ELSE NaT

---------------------------------------------------------------------------
\* calculate_time_differences: the pairing scan

\* A DataFrame is [columns |-> set of column labels, rows |-> sequence of
\* functions from the labels to cell values]; positions are 0-based as in
\* the source.
len(d) == Len(d.rows)

iloc(d, k) == d.rows[k + 1]

has_required_columns(d) == STATUS_COL \in d.columns /\ TIME_COL \in d.columns

\* Variant: rows whose time does not parse are not taken as "Received".
is_receive_parsed(row) ==
    row[STATUS_COL] = RECEIVE /\ to_datetime(row[TIME_COL]).valid

is_receive(row) == row[STATUS_COL] = RECEIVE

is_send(row) == row[STATUS_COL] = SEND

\* Variant: the search begins one row too far.
SearchStartSkip(k) == k + 2

SearchStart(k) == k + 1

\* The inner loop: the first position >= j holding a "Sent" row, len(d)
\* when there is none.
RECURSIVE FindSend(_, _)
FindSend(d, j) ==
    IF j < len(d)
    THEN (IF is_send(iloc(d, j)) THEN j ELSE FindSend(d, j + 1))
    ELSE j

\* (send_time - receive_time).total_seconds(): NaT propagates to nan.
total_seconds(send_time, receive_time) ==
    IF send_time.valid /\ receive_time.valid
    THEN Num(send_time.secs - receive_time.secs)
    ELSE NaN

\* Variant: the seconds are not divided by 60.
time_diff_seconds(send_time, receive_time) ==
    total_seconds(send_time, receive_time)

\* total_seconds() / 60. Parsed times are whole minutes, so the quotient
\* is a whole number.
time_diff(send_time, receive_time) ==
    LET s == total_seconds(send_time, receive_time) IN
    IF s.t = "nan" THEN NaN ELSE Num(s.n \div 60)

\* Variant: the two positions are exchanged.
MatchRecordSwapped(d, dt, k, j) ==
    [receive_index |-> j,
     send_index |-> k,
     receive_time |-> iloc(d, k)[TIME_COL],
     send_time |-> iloc(d, j)[TIME_COL],
     time_diff_minutes |-> time_diff(dt[j + 1], dt[k + 1])]

MatchRecord(d, dt, k, j) ==
    [receive_index |-> k,
     send_index |-> j,
     receive_time |-> iloc(d, k)[TIME_COL],
     send_time |-> iloc(d, j)[TIME_COL],
     time_diff_minutes |-> time_diff(dt[j + 1], dt[k + 1])]

\* Variants: the cursor resumes on the row after the Received row; the
\* cursor resumes past the Sent row.
CursorAfterFoundNext(k, j) == k + 1

CursorPastSent(k, j) == j + 1

CursorAfterFound(k, j) == j

\* Variant: a failed search takes the cursor to the end of the rows.
CursorToEnd(k, j) == j

CursorAfterNotFound(k, j) == k + 1

\* Variant: the cursor is not advanced.
CursorStay(k) == k

CursorAfterOther(k) == k + 1

\* Which branch one pass of the outer loop takes at cursor k < len(d).
Branch(d, k) ==
    IF is_receive(iloc(d, k))
    THEN (IF FindSend(d, SearchStart(k)) < len(d) THEN "found" ELSE "not_found")
    ELSE "other"

\* One pass of the outer loop body at cursor k < len(d).
OuterIteration(d, dt, k, res) ==
    LET j == FindSend(d, SearchStart(k)) IN
    CASE Branch(d, k) = "found" ->
            [i |-> CursorAfterFound(k, j),
             results |-> Append(res, MatchRecord(d, dt, k, j))]
      [] Branch(d, k) = "not_found" ->
            [i |-> CursorAfterNotFound(k, j), results |-> res]
      [] OTHER ->
            [i |-> CursorAfterOther(k), results |-> res]

\* The whole outer loop from cursor k.
RECURSIVE RunScan(_, _, _, _)
RunScan(d, dt, k, res) ==
    IF k < len(d)
    THEN LET s == OuterIteration(d, dt, k, res) IN RunScan(d, dt, s.i, s.results)
    ELSE res

datetime_column(d) == [k \in 1..len(d) |-> to_datetime(d.rows[k][TIME_COL])]

---------------------------------------------------------------------------
\* process_excel_file: reading the worksheet

\* A worksheet is a sequence of rows (row numbers 1-based, as openpyxl's),
\* each a sequence of cells of the sheet's width.
Contains(row, v) == \E c \in 1..Len(row) : row[c] = v

IsHeaderRow(row) == Contains(row, STATUS_COL) \/ Contains(row, TIME_COL)

\* The first row holding one of the two labels, None when no row does.
find_header_row(sh) ==
    IF \E r \in 1..Len(sh) : IsHeaderRow(sh[r])
    THEN CHOOSE r \in 1..Len(sh) :
            IsHeaderRow(sh[r]) /\ \A q \in 1..(r - 1) : ~IsHeaderRow(sh[q])
    ELSE None

\* The 0-based position of the last header equal to label, None when absent.
col_idx(hs, label) ==
    IF Contains(hs, label)
    THEN (CHOOSE c \in 1..Len(hs) :
            hs[c] = label /\ \A q \in (c + 1)..Len(hs) : hs[q] # label) - 1
    ELSE None

\* The 0-based position of the first header equal to label, None when absent.
first_col_idx(hs, label) ==
    IF Contains(hs, label)
    THEN (CHOOSE c \in 1..Len(hs) :
            hs[c] = label /\ \A q \in 1..(c - 1) : hs[q] # label) - 1
    ELSE None

\* Variant: the check fails only when both labels are absent.
MissingRequiredBoth(s_idx, t_idx) == s_idx = None /\ t_idx = None

MissingRequired(s_idx, t_idx) == s_idx = None \/ t_idx = None

\* Whether the reader skips a worksheet row.
SkipRow(row, s_idx, t_idx) ==
    Len(row) = 0 \/ row[s_idx + 1] = NoneCell \/ row[t_idx + 1] = NoneCell

\* The dict built from one worksheet row: a later duplicate header wins.
data_row(hs, row) ==
    [h \in {hs[c] : c \in 1..Len(hs)} |->
        LET c == col_idx(hs, h) + 1 IN
        IF c <= Len(row) THEN row[c] ELSE NoneCell]

\* The worksheet row numbers below the header that the reader keeps, in
\* order.
RECURSIVE KeptRows(_, _, _, _)
KeptRows(sh, r, s_idx, t_idx) ==
    IF r > Len(sh) THEN <<>>
    ELSE IF SkipRow(sh[r], s_idx, t_idx) THEN KeptRows(sh, r + 1, s_idx, t_idx)
    ELSE <<r>> \o KeptRows(sh, r + 1, s_idx, t_idx)

read_data(sh, h_row, hs, s_idx, t_idx) ==
    LET kept == KeptRows(sh, h_row + 1, s_idx, t_idx) IN
    [k \in 1..Len(kept) |-> data_row(hs, sh[kept[k]])]

\* pd.DataFrame(data): an empty list gives a frame without columns.
DataFrame(data, hs) ==
    [columns |-> IF Len(data) = 0 THEN {} ELSE {hs[c] : c \in 1..Len(hs)},
     rows |-> data]

---------------------------------------------------------------------------
\* process_excel_file: writing the worksheet and the summary

Max(a, b) == IF a >= b THEN a ELSE b

Width(sh) == IF Len(sh) = 0 THEN 0 ELSE Len(sh[1])

\* sheet.cell(row=r, column=c).value = v; the grid grows to hold the cell.
SetCell(sh, r, c, v) ==
    LET w == Max(Width(sh), c)
        n == Max(Len(sh), r)
    IN [q \in 1..n |->
          [x \in 1..w |->
             IF q = r /\ x = c THEN v
             ELSE IF q <= Len(sh) /\ x <= Len(sh[q]) THEN sh[q][x]
             ELSE NoneCell]]

\* The worksheet row a result's DataFrame position is written to.
SheetRow(index, h_row) == index + h_row + 1

\* round(x, 2): whole minutes and nan are unchanged.
round2(x) == x

RECURSIVE WriteDiffs(_, _, _, _)
WriteDiffs(sh, res, h_row, col) ==
    IF Len(res) = 0 THEN sh
    ELSE WriteDiffs(
            SetCell(sh, SheetRow(res[1].receive_index, h_row), col + 1,
                    round2(res[1].time_diff_minutes)),
            Tail(res), h_row, col)

SummaryRow(n, result, h_row) ==
    <<Num(n),
      Num(SheetRow(result.receive_index, h_row)),
      result.receive_time,
      Num(SheetRow(result.send_index, h_row)),
      result.send_time,
      round2(result.time_diff_minutes)>>

SummarySheet(res, h_row) ==
    <<summary_headers>> \o [n \in 1..Len(res) |-> SummaryRow(n, res[n], h_row)]

---------------------------------------------------------------------------
\* Inputs

T0 == Str("2024/02/29 23:58")
T1 == Str("2024/03/01 00:03")
TBad == Str("2023/02/29 10:00")
OTHER_STATUS == Str("System")
REMARK_COL == Str("Remark")
TITLE == Str("ChatLog")

\* Status and time cells of the rows of a DataFrame.
KeptKinds ==
    [status : {RECEIVE, SEND}, time : {T0, T1, TBad}]
        \cup {[status |-> OTHER_STATUS, time |-> T0]}

\* Status and time cells of the worksheet rows below the header: rows the
\* reader keeps, and rows it skips (no status, no time, neither).
RowKinds ==
    {[status |-> RECEIVE, time |-> T0],
     [status |-> RECEIVE, time |-> TBad],
     [status |-> SEND, time |-> T1],
     [status |-> OTHER_STATUS, time |-> T0],
     [status |-> NoneCell, time |-> NoneCell],
     [status |-> RECEIVE, time |-> NoneCell],
     [status |-> NoneCell, time |-> T0]}

SeqsUpTo(S, n) == UNION {[1..m -> S] : m \in 0..n}

\* Rows above the header, the column plan, and whether the plan is written
\* as a header row. GoodLayouts have both labels in the first row that has
\* one of them.
GoodLayouts ==
    {[pre |-> <<>>, plan |-> <<STATUS_COL, TIME_COL>>, header |-> TRUE],
     [pre |-> <<<<TITLE, NoneCell>>>>, plan |-> <<TIME_COL, STATUS_COL>>,
      header |-> TRUE],
     [pre |-> <<>>, plan |-> <<STATUS_COL, TIME_COL, DIFF_COL>>, header |-> TRUE]}

BadLayouts ==
    {[pre |-> <<>>, plan |-> <<STATUS_COL, TIME_COL>>, header |-> FALSE],
     [pre |-> <<>>, plan |-> <<STATUS_COL, REMARK_COL>>, header |-> TRUE],
     [pre |-> <<>>, plan |-> <<REMARK_COL, TIME_COL>>, header |-> TRUE],
     [pre |-> <<<<TIME_COL, NoneCell>>>>, plan |-> <<STATUS_COL, TIME_COL>>,
      header |-> TRUE]}

BuildRow(plan, kind) ==
    [c \in 1..Len(plan) |->
        IF plan[c] = STATUS_COL THEN kind.status
        ELSE IF plan[c] = TIME_COL THEN kind.time
        ELSE NoneCell]

BuildSheet(layout, kinds) ==
    layout.pre
      \o (IF layout.header THEN <<layout.plan>> ELSE <<>>)
      \o [k \in 1..Len(kinds) |-> BuildRow(layout.plan, kinds[k])]

Sheets ==
    {BuildSheet(l, ks) : l \in GoodLayouts, ks \in SeqsUpTo(RowKinds, MaxRows)}
    \cup {BuildSheet(l, ks) : l \in BadLayouts, ks \in SeqsUpTo(RowKinds, 2)}

NoFile == <<>>

Requests ==
    {[method |-> "GET", has_file |-> FALSE, filename |-> "", file_content |-> NoFile],
     [method |-> "POST", has_file |-> FALSE, filename |-> "", file_content |-> NoFile],
     [method |-> "POST", has_file |-> TRUE, filename |-> "", file_content |-> NoFile],
     [method |-> "POST", has_file |-> TRUE, filename |-> "log.csv",
      file_content |-> NoFile]}
    \cup {[method |-> "POST", has_file |-> TRUE, filename |-> "log.xlsx",
           file_content |-> sh] : sh \in Sheets}

NoRequest ==
    [method |-> "NONE", has_file |-> FALSE, filename |-> "", file_content |-> NoFile]

\* DataFrames handed to calculate_time_differences by a direct call.
DirectFrames ==
    {[columns |-> {STATUS_COL, TIME_COL},
      rows |-> [k \in 1..Len(ks) |->
                  [h \in {STATUS_COL, TIME_COL} |->
                      IF h = STATUS_COL THEN ks[k].status ELSE ks[k].time]]] :
        ks \in SeqsUpTo(KeptKinds, MaxRows)}
    \cup {[columns |-> {STATUS_COL}, rows |-> <<>>],
          [columns |-> {}, rows |-> <<>>]}

EmptyFrame == [columns |-> {}, rows |-> <<>>]

Pending == [kind |-> "pending"]

---------------------------------------------------------------------------
\* State machine

InitCommon ==
    /\ sheet = <<>>
    /\ summary_sheet = <<>>
    /\ header_row = None
    /\ headers = <<>>
    /\ status_col_idx = None
    /\ time_col_idx = None
    /\ time_diff_col = None
    /\ datetime = <<>>
    /\ i = 0
    /\ results = <<>>
    /\ response = Pending

Init ==
    /\ InitCommon
    /\ \E c \in {"index", "direct"} : caller = c
    /\ IF caller = "index"
       THEN request \in Requests /\ df = EmptyFrame /\ pc = "index"
       ELSE request = NoRequest /\ df \in DirectFrames
            /\ pc = "calculate_time_differences"

EndsWithExcel(name) == name \in {"log.xlsx", "log.xls"}

\* The page index renders without reading the file: <<>> is the page
\* without an error, "accept" means the file is read.
IndexOutcome(req) ==
    IF req.method # "POST" THEN <<>>
    ELSE IF ~req.has_file THEN <<"no file uploaded">>
    ELSE IF req.filename = "" THEN <<"no file selected">>
    ELSE IF ~EndsWithExcel(req.filename) THEN <<"upload an Excel file">>
    ELSE <<"accept">>

Page(error) == [kind |-> "page", error |-> error]

\* What the caller of a failing step sees: index renders the message,
\* a direct caller gets the exception.
Fail(msg) ==
    IF caller = "index"
    THEN Page(<<"error while processing file">> \o msg)
    ELSE [kind |-> "raise", error |-> msg]

IndexReject ==
    /\ pc = "index"
    /\ IndexOutcome(request) # <<"accept">>
    /\ response' = Page(IndexOutcome(request))
    /\ pc' = "done"
    /\ UNCHANGED <<request, caller, sheet, summary_sheet, header_row, headers,
                   status_col_idx, time_col_idx, time_diff_col, df, datetime,
                   i, results>>

\* index reads the file; process_excel_file loads the workbook.
IndexAccept ==
    /\ pc = "index"
    /\ IndexOutcome(request) = <<"accept">>
    /\ sheet' = request.file_content
    /\ pc' = "find_header"
    /\ UNCHANGED <<request, caller, summary_sheet, header_row, headers,
                   status_col_idx, time_col_idx, time_diff_col, df, datetime,
                   i, results, response>>

HeaderError(sh) ==
    LET h == find_header_row(sh) IN
    IF h = None THEN <<"cannot find a column Sent/Received or SessionTime">>
    ELSE IF MissingRequired(col_idx(sh[h], STATUS_COL), col_idx(sh[h], TIME_COL))
    THEN <<"must contain columns Sent/Received and SessionTime">>
    ELSE <<>>

FindHeaderFail ==
    /\ pc = "find_header"
    /\ HeaderError(sheet) # <<>>
    /\ response' = Fail(HeaderError(sheet))
    /\ pc' = "done"
    /\ UNCHANGED <<request, caller, sheet, summary_sheet, header_row, headers,
                   status_col_idx, time_col_idx, time_diff_col, df, datetime,
                   i, results>>

FindHeaderOk ==
    /\ pc = "find_header"
    /\ HeaderError(sheet) = <<>>
    /\ header_row' = find_header_row(sheet)
    /\ headers' = sheet[header_row']
    /\ status_col_idx' = col_idx(headers', STATUS_COL)
    /\ time_col_idx' = col_idx(headers', TIME_COL)
    /\ pc' = "read_data"
    /\ UNCHANGED <<request, caller, sheet, summary_sheet, time_diff_col, df,
                   datetime, i, results, response>>

\* row[None] raises TypeError on the first row below the header.
ReadDataRaises ==
    /\ (status_col_idx = None \/ time_col_idx = None)
    /\ header_row < Len(sheet)

\* Lines 107-121. A raise leaves process_excel_file at once.
ReadData ==
    /\ pc = "read_data"
    /\ IF ReadDataRaises
       THEN /\ response' = Fail(<<"tuple indices must be integers">>)
            /\ pc' = "done"
            /\ df' = df
       ELSE /\ df' = DataFrame(read_data(sheet, header_row, headers,
                                         status_col_idx, time_col_idx),
                               headers)
            /\ pc' = "calculate_time_differences"
            /\ response' = response
    /\ UNCHANGED <<request, caller, sheet, summary_sheet, header_row, headers,
                   status_col_idx, time_col_idx, time_diff_col, datetime, i,
                   results>>

\* Lines 21-29: the column check, the datetime column, the empty result.
CalcRaise ==
    /\ pc = "calculate_time_differences"
    /\ ~has_required_columns(df)
    /\ response' =
          Fail(IF caller = "index"
               THEN <<"error while calculating time differences",
                      "data must contain columns Sent/Received and SessionTime">>
               ELSE <<"data must contain columns Sent/Received and SessionTime">>)
    /\ pc' = "done"
    /\ UNCHANGED <<request, caller, sheet, summary_sheet, header_row, headers,
                   status_col_idx, time_col_idx, time_diff_col, df, datetime,
                   i, results>>

CalcStart ==
    /\ pc = "calculate_time_differences"
    /\ has_required_columns(df)
    /\ datetime' = datetime_column(df)
    /\ results' = <<>>
    /\ i' = 0
    /\ pc' = "scan"
    /\ UNCHANGED <<request, caller, sheet, summary_sheet, header_row, headers,
                   status_col_idx, time_col_idx, time_diff_col, df, response>>

\* Lines 31-35, 66-67: a pass of the outer loop at a row that is not "Received".
ScanOther ==
    /\ pc = "scan"
    /\ i < len(df)
    /\ Branch(df, i) = "other"
    /\ i' = OuterIteration(df, datetime, i, results).i
    /\ results' = OuterIteration(df, datetime, i, results).results
    /\ UNCHANGED <<request, caller, pc, sheet, summary_sheet, header_row,
                   headers, status_col_idx, time_col_idx, time_diff_col, df,
                   datetime, response>>

\* Lines 31-61: a pass at a "Received" row whose search finds a "Sent" row.
ScanFound ==
    /\ pc = "scan"
    /\ i < len(df)
    /\ Branch(df, i) = "found"
    /\ i' = OuterIteration(df, datetime, i, results).i
    /\ results' = OuterIteration(df, datetime, i, results).results
    /\ UNCHANGED <<request, caller, pc, sheet, summary_sheet, header_row,
                   headers, status_col_idx, time_col_idx, time_diff_col, df,
                   datetime, response>>

\* Lines 31-42, 61-65: a pass at a "Received" row whose search reaches the end.
ScanNotFound ==
    /\ pc = "scan"
    /\ i < len(df)
    /\ Branch(df, i) = "not_found"
    /\ i' = OuterIteration(df, datetime, i, results).i
    /\ results' = OuterIteration(df, datetime, i, results).results
    /\ UNCHANGED <<request, caller, pc, sheet, summary_sheet, header_row,
                   headers, status_col_idx, time_col_idx, time_diff_col, df,
                   datetime, response>>

\* Line 69: the loop condition fails and the results are returned.
ScanReturn ==
    /\ pc = "scan"
    /\ ~(i < len(df))
    /\ IF caller = "index"
       THEN pc' = "write_results" /\ response' = response
       ELSE pc' = "done" /\ response' = [kind |-> "return", value |-> results]
    /\ UNCHANGED <<request, caller, sheet, summary_sheet, header_row, headers,
                   status_col_idx, time_col_idx, time_diff_col, df, datetime,
                   i, results>>

\* Lines 130-151: find or add the difference column, write one cell per
\* result.
WriteResults ==
    /\ pc = "write_results"
    /\ LET found == first_col_idx(headers, DIFF_COL)
           col == IF found = None THEN Len(headers) ELSE found
           sh == IF found = None
                 THEN SetCell(sheet, header_row, col + 1, DIFF_COL)
                 ELSE sheet
       IN /\ time_diff_col' = col
          /\ headers' = IF found = None THEN Append(headers, DIFF_COL) ELSE headers
          /\ sheet' = WriteDiffs(sh, results, header_row, col)
    /\ pc' = "write_summary"
    /\ UNCHANGED <<request, caller, summary_sheet, header_row, status_col_idx,
                   time_col_idx, df, datetime, i, results, response>>

\* Lines 164-182: the summary sheet "TimeDiffSummary" is created (the
\* uploaded workbooks of the model hold one sheet, so there is none to
\* replace) and filled.
WriteSummary ==
    /\ pc = "write_summary"
    /\ summary_sheet' = SummarySheet(results, header_row)
    /\ pc' = "send_file"
    /\ UNCHANGED <<request, caller, sheet, header_row, headers, status_col_idx,
                   time_col_idx, time_diff_col, df, datetime, i, results,
                   response>>

\* Lines 222-233: the workbook is saved and sent.
SendFile ==
    /\ pc = "send_file"
    /\ response' = [kind |-> "file",
                    download_name |-> <<"Result_", request.filename>>,
                    sheet |-> sheet,
                    summary_sheet |-> summary_sheet]
    /\ pc' = "done"
    /\ UNCHANGED <<request, caller, sheet, summary_sheet, header_row, headers,
                   status_col_idx, time_col_idx, time_diff_col, df, datetime,
                   i, results>>

Next ==
    \/ IndexReject
    \/ IndexAccept
    \/ FindHeaderFail
    \/ FindHeaderOk
    \/ ReadData
    \/ CalcRaise
    \/ CalcStart
    \/ ScanOther
    \/ ScanFound
    \/ ScanNotFound
    \/ ScanReturn
    \/ WriteResults
    \/ WriteSummary
    \/ SendFile

Spec == Init /\ [][Next]_vars

---------------------------------------------------------------------------
\* Vocabulary of the properties

Direction(k) == iloc(df, k)[STATUS_COL]

Positions == 0..(len(df) - 1)

\* The scan has ended and its results were handed back.
Returned ==
    \/ pc \in {"write_results", "write_summary", "send_file"}
    \/ pc = "done" /\ response.kind \in {"file", "return"}

Matches == 1..Len(results)

Pair(n) == <<results[n].receive_index, results[n].send_index>>

IsMatched(k) ==
    \E n \in Matches : results[n].receive_index = k \/ results[n].send_index = k

DirectionsAre(dirs) ==
    /\ len(df) = Len(dirs)
    /\ \A k \in Positions : Direction(k) = dirs[k + 1]

SentRows == {j \in Positions : Direction(j) = SEND}

PrevSent(j) ==
    IF \E p \in SentRows : p < j
    THEN CHOOSE p \in SentRows : p < j /\ \A q \in SentRows : q < j => q <= p
    ELSE -1

ReceivedBetween(p, j) == {k \in (p + 1)..(j - 1) : Direction(k) = RECEIVE}

Least(S) == CHOOSE x \in S : \A y \in S : x <= y

ExpectedPairs ==
    {<<Least(ReceivedBetween(PrevSent(j), j)), j>> :
        j \in {q \in SentRows : ReceivedBetween(PrevSent(q), q) # {}}}

\* C1: the returned Matches are exactly one per Sent row that has a Received
\* row since the previous Sent row, pairing it with the first such Received
\* row, in increasing order of the Sent rows; each Match joins a Received row
\* to the first Sent row after it.
C1_ExactMatches ==
    Returned =>
        /\ Len(results) = Cardinality(ExpectedPairs)
        /\ \A n \in Matches : Pair(n) \in ExpectedPairs
        /\ \A n \in Matches :
              n < Len(results) => results[n].send_index < results[n + 1].send_index
        /\ \A n \in Matches :
              /\ Direction(results[n].receive_index) = RECEIVE
              /\ Direction(results[n].send_index) = SEND
              /\ \A k \in (results[n].receive_index + 1)..(results[n].send_index - 1) :
                    Direction(k) # SEND

C1_Witness ==
    /\ Returned
    /\ Len(results) >= 1
    /\ \E j \in SentRows : ~IsMatched(j)
    /\ \E k \in Positions : Direction(k) = RECEIVE /\ ~IsMatched(k)

\* C2: every Match has 0 <= receive_index < send_index < number of rows.
C2_IndexOrder ==
    \A n \in Matches :
        /\ 0 <= results[n].receive_index
        /\ results[n].receive_index < results[n].send_index
        /\ results[n].send_index < len(df)

C2_Witness ==
    /\ Returned
    /\ \E n \in Matches : results[n].send_index > results[n].receive_index + 1

\* C3: no two Matches share a receive_index or a send_index, and each Match
\* ends strictly before the next one begins.
C3_NoOverlap ==
    /\ \A n, m \in Matches :
          n # m => /\ results[n].receive_index # results[m].receive_index
                   /\ results[n].send_index # results[m].send_index
    /\ \A n \in Matches :
          n < Len(results) =>
              /\ results[n].receive_index < results[n + 1].receive_index
              /\ results[n].send_index < results[n + 1].receive_index

C3_Witness == Returned /\ Len(results) >= 2

\* C4: [Received, Received, Sent] gives the single Match (0, 2); a pass that
\* emits a Match leaves the cursor on its Sent row, and no Received row
\* strictly inside a Match is the receive_index of a Match.
C4_StateOk ==
    /\ Returned =>
          \A n \in Matches :
              \A k \in (results[n].receive_index + 1)..(results[n].send_index - 1) :
                  \A m \in Matches : results[m].receive_index # k
    /\ (Returned /\ DirectionsAre(<<RECEIVE, RECEIVE, SEND>>)) =>
          /\ Len(results) = 1
          /\ Pair(1) = <<0, 2>>

C4_ResumeAtSent ==
    /\ []C4_StateOk
    /\ [][(pc = "scan" /\ Len(results') = Len(results) + 1) =>
             i' = results'[Len(results')].send_index]_vars

C4_Witness ==
    /\ Returned
    /\ DirectionsAre(<<RECEIVE, RECEIVE, SEND>>)
    /\ Len(results) = 1

NoSentAfter(k) == \A j \in (k + 1)..(len(df) - 1) : Direction(j) # SEND

\* C5: a Received row with no Sent row after it is in no Match and the call
\* still returns; [Sent, Received] gives no Match; the pass whose search
\* reaches the end moves the cursor by exactly one and keeps the Matches
\* emitted so far.
C5_StateOk ==
    /\ Returned =>
          \A k \in Positions :
              (Direction(k) = RECEIVE /\ NoSentAfter(k)) => ~IsMatched(k)
    /\ (Returned /\ DirectionsAre(<<SEND, RECEIVE>>)) => results = <<>>
    /\ (/\ pc = "done"
        /\ caller = "direct"
        /\ has_required_columns(df)
        /\ \E k \in Positions : Direction(k) = RECEIVE /\ NoSentAfter(k))
          => (response.kind = "return" /\ response.value = results)

C5_UnmatchedReceived ==
    /\ []C5_StateOk
    /\ [][(/\ pc = "scan"
           /\ i < len(df)
           /\ Direction(i) = RECEIVE
           /\ NoSentAfter(i))
             => (i' = i + 1 /\ results' = results /\ pc' = "scan")]_vars

C5_Witness ==
    /\ Returned
    /\ Len(results) >= 1
    /\ len(df) >= 1
    /\ Direction(len(df) - 1) = RECEIVE

\* C6: a Match whose two timestamps are valid has the duration (timestamp of
\* its Sent row - timestamp of its Received row) in minutes, negative when
\* the Sent row is the earlier; [Received at 2024/02/29 23:58, Sent at
\* 2024/03/01 00:03] gives one Match of duration 5.
C6_Duration ==
    /\ \A n \in Matches :
          LET r == datetime[results[n].receive_index + 1]
              t == datetime[results[n].send_index + 1]
              d == results[n].time_diff_minutes
          IN (r.valid /\ t.valid) =>
                /\ d.t = "num"
                /\ d.n * 60 = t.secs - r.secs
                /\ (t.secs < r.secs => d.n < 0)
    /\ (/\ pc = "scan"
        /\ i >= len(df)
        /\ len(df) = 2
        /\ iloc(df, 0)[STATUS_COL] = RECEIVE /\ iloc(df, 0)[TIME_COL] = T0
        /\ iloc(df, 1)[STATUS_COL] = SEND /\ iloc(df, 1)[TIME_COL] = T1)
          => (Len(results) = 1 /\ results[1].time_diff_minutes = Num(5))

C6_Witness ==
    /\ Returned
    /\ \E n \in Matches :
          /\ results[n].time_diff_minutes.t = "num"
          /\ results[n].time_diff_minutes.n < 0
    /\ \E n \in Matches : results[n].time_diff_minutes = Num(5)

\* The DataFrame with every session time replaced by the cell v.
Retimed(d, v) ==
    [columns |-> d.columns,
     rows |-> [k \in 1..len(d) |->
                 [h \in d.columns |-> IF h = TIME_COL THEN v ELSE d.rows[k][h]]]]

IndexPairs(res) == [n \in 1..Len(res) |-> <<res[n].receive_index, res[n].send_index>>]

calculate_time_differences(d) == RunScan(d, datetime_column(d), 0, <<>>)

\* C7: the index pairs are those of the same rows with every time valid and
\* of the same rows with every time unparseable; a Match with an invalid
\* timestamp has duration nan, every other Match its numeric duration, and
\* the call returns.
C7_ValidityBlind ==
    /\ (pc = "scan" /\ i >= len(df)) =>
          /\ IndexPairs(results) = IndexPairs(calculate_time_differences(Retimed(df, T0)))
          /\ IndexPairs(results) = IndexPairs(calculate_time_differences(Retimed(df, TBad)))
    /\ \A n \in Matches :
          LET r == datetime[results[n].receive_index + 1]
              t == datetime[results[n].send_index + 1]
              d == results[n].time_diff_minutes
          IN IF r.valid /\ t.valid
             THEN d = Num((t.secs - r.secs) \div 60)
             ELSE d = NaN
    /\ (/\ pc = "done"
        /\ caller = "direct"
        /\ has_required_columns(df)
        /\ \E k \in Positions : ~to_datetime(iloc(df, k)[TIME_COL]).valid)
          => response.kind = "return"

C7_Witness ==
    /\ Returned
    /\ \E n \in Matches : results[n].time_diff_minutes = NaN
    /\ \E n \in Matches : results[n].time_diff_minutes.t = "num"

\* The worksheet row the DataFrame row at position k was read from.
SourceRow(k) ==
    KeptRows(request.file_content, header_row + 1, status_col_idx,
             time_col_idx)[k + 1]

\* C8: once the worksheet and the summary are written, each Match's duration
\* is in the difference column on the worksheet row its Received row was
\* read from, and the summary names the worksheet rows of both messages.
C8_AnnotatesSourceRows ==
    pc = "send_file" =>
        \A n \in Matches :
            /\ sheet[SourceRow(results[n].receive_index)][time_diff_col + 1]
                  = round2(results[n].time_diff_minutes)
            /\ summary_sheet[n + 1][2] = Num(SourceRow(results[n].receive_index))
            /\ summary_sheet[n + 1][4] = Num(SourceRow(results[n].send_index))

BothLabelsPresent(sh) ==
    /\ \E r \in 1..Len(sh) : Contains(sh[r], STATUS_COL)
    /\ \E r \in 1..Len(sh) : Contains(sh[r], TIME_COL)

Accepted == caller = "index" /\ IndexOutcome(request) = <<"accept">>

\* C9: when the sheet does not hold both labels, the pass stops at the
\* header search: no DataFrame is built, calculate_time_differences is not
\* entered, the worksheet is left as loaded, and index answers with an error
\* page; every answer of index to an accepted upload is either the fully
\* written workbook or an error page.
C9_StructuralError ==
    /\ (Accepted /\ ~BothLabelsPresent(request.file_content)) =>
          /\ pc \in {"index", "find_header", "done"}
          /\ df = EmptyFrame /\ datetime = <<>> /\ results = <<>>
          /\ summary_sheet = <<>>
          /\ pc # "index" => sheet = request.file_content
          /\ pc = "done" => (response.kind = "page" /\ response.error # <<>>)
    /\ (Accepted /\ pc = "done") =>
          \/ response.kind = "page" /\ response.error # <<>>
          \/ /\ response.kind = "file"
             /\ response.sheet = sheet
             /\ Contains(sheet[header_row], DIFF_COL)
             /\ response.summary_sheet = SummarySheet(results, header_row)

C9_Witness ==
    /\ Accepted
    /\ pc = "done"
    /\ \E r \in 1..Len(request.file_content) :
          Contains(request.file_content[r], STATUS_COL)
    /\ ~BothLabelsPresent(request.file_content)
    /\ Len(request.file_content) >= 2

\* C10: the cursor starts at 0, stays within 0..length, strictly increases
\* on every pass of the outer loop; while i < length a pass that changes the
\* state can be taken, and the loop is left exactly when i >= length.
C10_StateOk ==
    pc = "scan" =>
        /\ 0 <= i /\ i <= len(df)
        /\ i < len(df) <=> ENABLED <<ScanOther \/ ScanFound \/ ScanNotFound>>_vars
        /\ i >= len(df) <=> ENABLED <<ScanReturn>>_vars

C10_CursorAdvances ==
    /\ []C10_StateOk
    /\ [][(pc = "scan" /\ pc' = "scan") => (i < len(df) /\ i' > i)]_vars
    /\ [][(pc = "scan" /\ pc' # "scan") => i >= len(df)]_vars
    /\ [][(pc # "scan" /\ pc' = "scan") => i' = 0]_vars

C10_Witness ==
    /\ pc = "scan"
    /\ i >= len(df)
    /\ len(df) >= 3
    /\ \E k \in Positions : Direction(k) = OTHER_STATUS
    /\ Len(results) >= 1

====
